---- MODULE Spec2Model ----
(***************************************************************************)
(* The class scheduler: the backend's /update handler (backend.py) with    *)
(* the Drive Upsert and the Slot-Intersection Scheduler running in one     *)
(* database transaction per delivery, and the ingestion client             *)
(* (email_parser_main_client.py) with its batches and its admission gate.  *)
(***************************************************************************)
EXTENDS Integers, Sequences, FiniteSets, TLC

\* ------------------------------------------------------------------ bounds
\* Deliveries (requests to /update) of one behaviour of Spec and SpecOverlap.
MaxDeliveries == 2
\* Deliveries of one behaviour of SpecSched.
MaxSchedDeliveries == 2
\* Entries of one delivered mapping, over all its students.
MaxEntries == 2
\* Students of a run of process_all_students.
MaxPopulation == 3
\* The batch sizes (BATCH_SIZE) and gate ceilings (the Semaphore's initial
\* value) a run is checked with go up to these.
MaxBatch == 2
MaxCeiling == 2
\* Calls of main in one process.
MaxRuns == 2

\* ---------------------------------------------------------- reference data
\* students.student_id of the store.
Students == {"S1", "S2"}
Companies == {"Acme"}
\* interview_datetime strings a delivery may carry.
DtStrings == {"2024-01-01T10:00:00", "2024-01-01 10:00:00", "not-a-date"}
\* The handler runs once per request; requests in flight at one time each
\* have a session (line 198).
Sessions == {1, 2}

VARIABLES
    \* the persistent store: reference tables
    subjects,          \* Subject: set of subject_id
    weekly_slot,       \* WeeklySlot: set of <<day, time>>
    subject_schedule,  \* SubjectSchedule: set of <<subject_id, day, time>>
    student_subject,   \* StudentSubject: set of <<student_id, subject_id>>
    scan,              \* "asc" or "desc": the order the store returns rows in
    \* the persistent store: tables the handler writes (committed rows)
    committed,         \* [drives, resched, rcs, attendance: sets of rows]
    delivered,         \* requests that have arrived
    \* one /update request in flight each
    pc,                \* position of the handler
    data,              \* the delivered mapping, flattened in iteration order
    idx,               \* index of the next entry of data
    todo,              \* subjects the loop of line 232 has not reached
    staged,            \* rows of the request's transaction, not committed
    response,          \* what the caller got
    before,            \* history: the committed rows when the request began
    prior,             \* history: the response of the session's previous
                       \* request when it delivered the same mapping
    \* the ingestion client: main and its run of process_all_students
    students,          \* the argument: a sequence of student ids
    batch_size,        \* BATCH_SIZE (5 in the code, line 18)
    ceiling,           \* the Semaphore's initial value (10 in the code, line 158)
    semaphore,         \* the Semaphore's value: the free permits
    cpc,               \* position of process_all_students
    batch_i,           \* the loop variable i of line 164, counted from 1
    tpc,               \* position of the sem_task of each student of the batch
    results,           \* the StudentTask each sem_task returned
    pq,                \* the heap of line 157
    output,            \* the mapping of line 171, or what the loop raised
    email_cache,       \* line 31: student_id -> the message ids seen
    mailbox,           \* the ids each student's server reports UNSEEN
    conn,              \* the IMAP connection of each fetch_emails
    email_ids,         \* the ids the loop of line 74 has not reached
    emails_content,    \* line 72, for each fetch_emails
    mpc,               \* position of main
    posts,             \* POST requests main has issued to BACKEND_URL
    runs,              \* calls of main in this process
    sent,              \* what the request of send_to_backend came to
    tasks,             \* history: the StudentTask of each student, this run
    failed,            \* history: the students whose fetch_emails raised
    known,             \* history: the student's cache when fetch_emails began
    calls,             \* history: parse_email_ai calls per student, this run
    returned           \* history: the ids fetch_emails returned, per student

\* The arguments of a run, the variables of fetch_emails, those of main and
\* the history variables.
runArgs == <<students, batch_size, ceiling, mailbox>>
fetchVars == <<email_cache, conn, email_ids, emails_content>>
mainVars == <<mpc, posts, runs, sent>>
histVars == <<tasks, failed, known, calls, returned>>
clientVars == <<runArgs, semaphore, cpc, batch_i, tpc, results, pq, output,
                fetchVars, mainVars, histVars>>
\* What no step of the handler changes: the reference tables, and the client.
storeVars == <<subjects, weekly_slot, subject_schedule, student_subject, scan,
               clientVars>>
backendVars == <<subjects, weekly_slot, subject_schedule, student_subject, scan,
                 committed, delivered,
                 pc, data, idx, todo, staged, response, before, prior>>
vars == <<backendVars, clientVars>>

NoRows == [drives |-> {}, resched |-> {}, rcs |-> {}, attendance |-> {}]

\* ------------------------------------------------------------ pure helpers
\* Code points of the strings of the model ("Mon" is M, o, n).
Chars(s) ==
    CASE s = "Mon" -> <<77, 111, 110>>
      [] s = "Tue" -> <<84, 117, 101>>
      [] s = "Fri" -> <<70, 114, 105>>
      [] s = "10:00" -> <<49, 48, 58, 48, 48>>
      [] s = "11:00" -> <<49, 49, 58, 48, 48>>
      [] s = "9:00" -> <<57, 58, 48, 48>>
      [] s = "S1" -> <<83, 49>>
      [] s = "S2" -> <<83, 50>>
      [] s = "X" -> <<88>>
      [] s = "Y" -> <<89>>
      [] s = "Z" -> <<90>>

\* Python's < on sequences: the first differing element decides, a proper
\* prefix is smaller.
RECURSIVE SeqLess(_, _)
SeqLess(a, b) ==
    IF b = <<>> THEN FALSE
    ELSE IF a = <<>> THEN TRUE
    ELSE IF Head(a) # Head(b) THEN Head(a) < Head(b)
    ELSE SeqLess(Tail(a), Tail(b))

\* str.__lt__
StrLess(s, t) == SeqLess(Chars(s), Chars(t))

\* tuple.__lt__ on (day, time)
SlotLess(p, q) ==
    IF p[1] # q[1] THEN StrLess(p[1], q[1]) ELSE StrLess(p[2], q[2])

\* Mutant: sorted(free_slots, reverse=True)[0].
LastSorted(slots) ==
    CHOOSE p \in slots : \A q \in slots \ {p} : SlotLess(q, p)

\* sorted(free_slots)[0], line 167
FirstSorted(slots) ==
    CHOOSE p \in slots : \A q \in slots \ {p} : SlotLess(p, q)

\* What datetime.fromisoformat raises on a string it cannot parse.
ValueError == <<>>

\* datetime.fromisoformat, line 205: the datetime, or ValueError
fromisoformat(s) ==
    CASE s = "2024-01-01T10:00:00" -> <<2024, 1, 1, 10, 0, 0>>
      [] s = "2024-01-01 10:00:00" -> <<2024, 1, 1, 10, 0, 0>>
      [] OTHER -> ValueError

\* result.all() of a SELECT of the keys S: the rows in the store's scan
\* order, ascending or descending by key.
RECURSIVE ResultAll(_)
ResultAll(S) ==
    IF S = {} THEN <<>>
    ELSE LET first == CHOOSE x \in S : \A y \in S \ {x} :
                          IF scan = "asc" THEN StrLess(x, y) ELSE StrLess(y, x)
         IN  <<first>> \o ResultAll(S \ {first})

\* ------------------------------------------------------------ the mappings
Entry == [student_id : Students, company_name : Companies, interview_datetime : DtStrings]

\* A mapping is a dict: the entries of one student are contiguous.
Grouped(m) ==
    \A i, j, k \in 1..Len(m) :
        (i < j /\ j < k /\ m[i].student_id = m[k].student_id)
            => m[j].student_id = m[i].student_id

Mappings ==
    {m \in UNION {[1..n -> Entry] : n \in 0..MaxEntries} : Grouped(m)}

\* ------------------------------------------------- Slot-Intersection Scheduler
\* The occupied set of lines 123-128.
occupied(student_id) ==
    {<<b[2], b[3]>> : b \in {b \in subject_schedule :
                                <<student_id, b[1]>> \in student_subject}}

\* Mutant: the union of the students' free sets instead of the intersection.
get_free_slots_union(student_ids) ==
    IF student_ids = {} THEN weekly_slot
    ELSE {p \in weekly_slot : \E s \in student_ids : p \notin occupied(s)}

\* get_free_slots, lines 107-140
get_free_slots(student_ids) ==
    IF student_ids = {} THEN weekly_slot
    ELSE {p \in weekly_slot : \A s \in student_ids : p \notin occupied(s)}

\* select(StudentSubject.student_id).where(subject_id == ...), lines 151-155
enrolled(subject_id) ==
    {e[1] : e \in {e \in student_subject : e[2] = subject_id}}

\* Mutant: without the early return of lines 156-158.
reschedule_without_enrollment_check(subject_id, ai) ==
    LET student_ids == ResultAll(enrolled(subject_id))
        free_slots == get_free_slots({student_ids[i] : i \in 1..Len(student_ids)})
    IN  IF free_slots = {} THEN NoRows
        ELSE LET slot == FirstSorted(free_slots)
                 new_reschedule ==
                     [reschedule_id |-> ai.resched, subject_id |-> subject_id,
                      day |-> slot[1], time |-> slot[2], status |-> "pending"]
             IN  [drives |-> {},
                  resched |-> {new_reschedule},
                  rcs |-> {[reschedule_id |-> new_reschedule.reschedule_id,
                            student_id |-> student_ids[i],
                            status |-> "pending"] : i \in 1..Len(student_ids)},
                  attendance |-> {[attendance_id |-> ai.attendance + i - 1,
                                   student_id |-> student_ids[i],
                                   schedule_id |-> "NULL",
                                   status |-> "absent"] : i \in 1..Len(student_ids)}]

\* Mutant: the Attendance row of lines 187-191 is added after the loop, for
\* the last student only.
reschedule_attendance_after_loop(subject_id, ai) ==
    LET student_ids == ResultAll(enrolled(subject_id))
        free_slots == get_free_slots({student_ids[i] : i \in 1..Len(student_ids)})
    IN  IF student_ids = <<>> THEN NoRows
        ELSE IF free_slots = {} THEN NoRows
        ELSE LET slot == FirstSorted(free_slots)
                 new_reschedule ==
                     [reschedule_id |-> ai.resched, subject_id |-> subject_id,
                      day |-> slot[1], time |-> slot[2], status |-> "pending"]
             IN  [drives |-> {},
                  resched |-> {new_reschedule},
                  rcs |-> {[reschedule_id |-> new_reschedule.reschedule_id,
                            student_id |-> student_ids[i],
                            status |-> "pending"] : i \in 1..Len(student_ids)},
                  attendance |-> {[attendance_id |-> ai.attendance,
                                   student_id |-> student_ids[Len(student_ids)],
                                   schedule_id |-> "NULL",
                                   status |-> "absent"]}]

\* Mutant: without the flush of line 178 the new row has no key yet when
\* line 183 reads it.
reschedule_without_flush(subject_id, ai) ==
    LET student_ids == ResultAll(enrolled(subject_id))
        free_slots == get_free_slots({student_ids[i] : i \in 1..Len(student_ids)})
    IN  IF student_ids = <<>> THEN NoRows
        ELSE IF free_slots = {} THEN NoRows
        ELSE LET slot == FirstSorted(free_slots)
                 new_reschedule ==
                     [reschedule_id |-> ai.resched, subject_id |-> subject_id,
                      day |-> slot[1], time |-> slot[2], status |-> "pending"]
             IN  [drives |-> {},
                  resched |-> {new_reschedule},
                  rcs |-> {[reschedule_id |-> 0,
                            student_id |-> student_ids[i],
                            status |-> "pending"] : i \in 1..Len(student_ids)},
                  attendance |-> {[attendance_id |-> ai.attendance + i - 1,
                                   student_id |-> student_ids[i],
                                   schedule_id |-> "NULL",
                                   status |-> "absent"] : i \in 1..Len(student_ids)}]

\* reschedule_class_for_subject, lines 142-191: the rows it stages when the
\* tables' next AUTO_INCREMENT values are ai.
reschedule_class_for_subject(subject_id, ai) ==
    LET student_ids == ResultAll(enrolled(subject_id))
        free_slots == get_free_slots({student_ids[i] : i \in 1..Len(student_ids)})
    IN  IF student_ids = <<>> THEN NoRows
        ELSE IF free_slots = {} THEN NoRows
        ELSE LET slot == FirstSorted(free_slots)
                 new_reschedule ==
                     [reschedule_id |-> ai.resched, subject_id |-> subject_id,
                      day |-> slot[1], time |-> slot[2], status |-> "pending"]
             IN  [drives |-> {},
                  resched |-> {new_reschedule},
                  rcs |-> {[reschedule_id |-> new_reschedule.reschedule_id,
                            student_id |-> student_ids[i],
                            status |-> "pending"] : i \in 1..Len(student_ids)},
                  attendance |-> {[attendance_id |-> ai.attendance + i - 1,
                                   student_id |-> student_ids[i],
                                   schedule_id |-> "NULL",
                                   status |-> "absent"] : i \in 1..Len(student_ids)}]

\* ------------------------------------------------------------- the session
\* session.add of several rows: they join the transaction's rows.
AddRows(rows, new) ==
    [drives |-> rows.drives \cup new.drives,
     resched |-> rows.resched \cup new.resched,
     rcs |-> rows.rcs \cup new.rcs,
     attendance |-> rows.attendance \cup new.attendance]

\* The rows of the store and of every open transaction.
RECURSIVE AllRows(_)
AllRows(ss) ==
    IF ss = {} THEN committed
    ELSE LET s == CHOOSE s \in ss : TRUE
         IN  AddRows(staged[s], AllRows(ss \ {s}))

\* The next key of an auto-increment column: above every key in use.  (A key
\* that a rolled-back transaction took is free again here; the handler reads
\* no key but the one of line 183.)
NextKey(keys) ==
    IF keys = {} THEN 1
    ELSE 1 + CHOOSE k \in keys : \A j \in keys : j <= k

autoinc ==
    [resched |-> NextKey({x.reschedule_id : x \in AllRows(Sessions).resched}),
     drives |-> NextKey({x.record_id : x \in AllRows(Sessions).drives}),
     attendance |-> NextKey({x.attendance_id : x \in AllRows(Sessions).attendance})]

\* What a SELECT of session s sees: the committed rows and its own.
Visible(s) == AddRows(committed, staged[s])

\* Mutant: the lookup sees only the rows of its own transaction.
existing_rows_own(s, student_id, company_name, drive_time) ==
    {d \in staged[s].drives :
        /\ d.student_id = student_id
        /\ d.company_name = company_name
        /\ d.drive_datetime = drive_time}

\* The select of lines 212-217.
existing_rows(s, student_id, company_name, drive_time) ==
    {d \in Visible(s).drives :
        /\ d.student_id = student_id
        /\ d.company_name = company_name
        /\ d.drive_datetime = drive_time}

\* Mutant: the except branch keeps what the transaction wrote.
RollbackKeepsRows(s) ==
    /\ committed' = AddRows(committed, staged[s])
    /\ staged' = [staged EXCEPT ![s] = NoRows]
    /\ response' = [response EXCEPT ![s] = "500"]
    /\ pc' = [pc EXCEPT ![s] = "done"]
    /\ UNCHANGED <<delivered, data, idx, todo, before, prior>>

\* session.rollback() and the HTTPException of lines 236-239
Rollback(s) ==
    /\ staged' = [staged EXCEPT ![s] = NoRows]
    /\ response' = [response EXCEPT ![s] = "500"]
    /\ pc' = [pc EXCEPT ![s] = "done"]
    /\ UNCHANGED <<committed, delivered, data, idx, todo, before, prior>>

\* ------------------------------------------------------------- the handler
InFlight(s) == pc[s] \in {"upsert", "subjects"}

\* POST /update arrives with mapping m: the session opens (line 198).
Begin(s, m) ==
    /\ ~InFlight(s)
    /\ \A q \in Sessions : q < s => InFlight(q)
    /\ pc' = [pc EXCEPT ![s] = "upsert"]
    /\ data' = [data EXCEPT ![s] = m]
    /\ idx' = [idx EXCEPT ![s] = 1]
    /\ todo' = [todo EXCEPT ![s] = <<>>]
    /\ response' = [response EXCEPT ![s] = "none"]
    /\ before' = [before EXCEPT ![s] = committed]
    /\ prior' = [prior EXCEPT ![s] =
                    IF pc[s] = "done" /\ m = data[s] THEN response[s] ELSE "none"]
    /\ delivered' = delivered + 1
    /\ UNCHANGED <<storeVars, committed, staged>>

\* Mutant: the ValueError of line 205 reaches the except of line 236.
SkipEntryAborts(s) == Rollback(s)

\* Lines 206-209: the entry's timestamp does not parse; the loop goes on.
SkipEntry(s) ==
    /\ idx' = [idx EXCEPT ![s] = @ + 1]
    /\ UNCHANGED <<committed, delivered, pc, data, todo, staged, response,
                   before, prior>>

\* Lines 219-226: no row matches, so one is added.
InsertDrive(s, student_id, company_name, drive_time) ==
    LET row == [record_id |-> autoinc.drives,
                student_id |-> student_id,
                company_name |-> company_name,
                drive_stage |-> "Interview",
                drive_datetime |-> drive_time,
                status |-> "pending"]
    IN  /\ staged' = [staged EXCEPT ![s] = AddRows(@, [NoRows EXCEPT !.drives = {row}])]
        /\ idx' = [idx EXCEPT ![s] = @ + 1]
        /\ UNCHANGED <<committed, delivered, pc, data, todo, response, before, prior>>

\* One turn of the loop of lines 201-227.
UpsertEntry(s) ==
    /\ pc[s] = "upsert"
    /\ idx[s] <= Len(data[s])
    /\ LET email == data[s][idx[s]]
           drive_time == fromisoformat(email.interview_datetime)
           found == existing_rows(s, email.student_id, email.company_name, drive_time)
       IN  IF drive_time = ValueError
           THEN SkipEntry(s)
           ELSE IF Cardinality(found) > 1
           THEN \* scalar_one_or_none raises MultipleResultsFound, line 218
                Rollback(s)
           ELSE IF found = {}
           THEN InsertDrive(s, email.student_id, email.company_name, drive_time)
           ELSE \* line 219: a row exists, nothing is added
                /\ idx' = [idx EXCEPT ![s] = @ + 1]
                /\ UNCHANGED <<committed, delivered, pc, data, todo, staged,
                               response, before, prior>>
    /\ UNCHANGED storeVars

\* Mutant: the scheduler runs only in a delivery that staged a
\* StudentCompanyDrive.
LoadSubjectsOnNewDrive(s) ==
    /\ pc[s] = "upsert"
    /\ idx[s] > Len(data[s])
    /\ pc' = [pc EXCEPT ![s] = "subjects"]
    /\ todo' = [todo EXCEPT ![s] =
                   IF staged[s].drives = {} THEN <<>> ELSE ResultAll(subjects)]
    /\ UNCHANGED <<storeVars, committed, delivered, data, idx, staged,
                   response, before, prior>>

\* select(Subject.subject_id), lines 230-231
LoadSubjects(s) ==
    /\ pc[s] = "upsert"
    /\ idx[s] > Len(data[s])
    /\ pc' = [pc EXCEPT ![s] = "subjects"]
    /\ todo' = [todo EXCEPT ![s] = ResultAll(subjects)]
    /\ UNCHANGED <<storeVars, committed, delivered, data, idx, staged,
                   response, before, prior>>

\* One turn of the loop of lines 232-233.
RescheduleSubject(s) ==
    /\ pc[s] = "subjects"
    /\ todo[s] # <<>>
    /\ LET new == reschedule_class_for_subject(Head(todo[s]), autoinc)
       IN  /\ staged' = [staged EXCEPT ![s] = AddRows(@, new)]
           /\ todo' = [todo EXCEPT ![s] = Tail(@)]
    /\ UNCHANGED <<storeVars, committed, delivered, pc, data, idx, response,
                   before, prior>>

\* A commit that replaces the pending RescheduledClass of a subject by the one
\* the transaction staged for it.
CommitReplacing(s) ==
    /\ pc[s] = "subjects"
    /\ todo[s] = <<>>
    /\ committed' =
          [AddRows(committed, staged[s]) EXCEPT
              !.resched =
                  staged[s].resched \cup
                  {x \in committed.resched :
                      \A y \in staged[s].resched :
                          y.subject_id # x.subject_id}]
    /\ staged' = [staged EXCEPT ![s] = NoRows]
    /\ response' = [response EXCEPT ![s] = "success"]
    /\ pc' = [pc EXCEPT ![s] = "done"]
    /\ UNCHANGED <<storeVars, delivered, data, idx, todo, before, prior>>

\* session.commit(), line 235, and the return of line 241
Commit(s) ==
    /\ pc[s] = "subjects"
    /\ todo[s] = <<>>
    /\ committed' = AddRows(committed, staged[s])
    /\ staged' = [staged EXCEPT ![s] = NoRows]
    /\ response' = [response EXCEPT ![s] = "success"]
    /\ pc' = [pc EXCEPT ![s] = "done"]
    /\ UNCHANGED <<storeVars, delivered, data, idx, todo, before, prior>>

\* A statement of the transaction (a select, a flush, the commit) raises:
\* the except branch of lines 236-239.
StoreError(s) ==
    /\ InFlight(s)
    /\ Rollback(s)
    /\ UNCHANGED storeVars

\* No request is between its arrival and its response.
NoneInFlight == \A q \in Sessions : ~InFlight(q)

\* ==================================================== the ingestion client
\* src/email_parser_main_client.py
BATCH_SIZE == 5
\* The argument of asyncio.Semaphore in process_all_students.
SEMAPHORE_PERMITS == 10

\* Message ids of a mailbox, as the strings of line 75, and what a SEARCH
\* UNSEEN may report (data[0].split(), line 71; <<>> is the case of line 67).
MessageIds == {"1", "2"}
SearchResults == {<<>>, <<"1">>, <<"2">>, <<"1", "2">>, <<"2", "1">>}

\* The text lines 83-92 get out of message e_id.
Body(e_id) == IF e_id = "1" THEN "offer" ELSE "junk"

\* parse_email_ai: what json.loads makes of the reply (line 124), or the
\* fallback of lines 125-128 when the call or the decoding raises.  The reply
\* is the remote model's choice: the object asked for, an object whose
\* interview_datetime is null, or JSON that is no object (a list).  type is
\* the Python type of the value; None is "None".
Extracted(content) ==
    [type |-> "dict", company_name |-> "Acme",
     interview_datetime |-> "2024-01-01T10:00:00", raw_text |-> "absent"]
Partial(content) ==
    [type |-> "dict", company_name |-> "Acme",
     interview_datetime |-> "None", raw_text |-> "absent"]
NonObject(content) ==
    [type |-> "list", company_name |-> "absent",
     interview_datetime |-> "absent", raw_text |-> "absent"]
Fallback(content) ==
    [type |-> "dict", company_name |-> "None", interview_datetime |-> "None",
     raw_text |-> content]
parse_email_ai(content) ==
    {Extracted(content), Partial(content), NonObject(content), Fallback(content)}

\* The lists the loop of lines 150-153 can build from emails.
RECURSIVE ParsedLists(_)
ParsedLists(emails) ==
    IF emails = <<>> THEN {<<>>}
    ELSE {<<p>> \o rest : p \in parse_email_ai(Head(emails)[2]),
                          rest \in ParsedLists(Tail(emails))}

\* StudentTask, lines 135-142; priority is set at line 154.
StudentTask(student_id, parsed_emails) ==
    [priority |-> Len(parsed_emails), student_id |-> student_id,
     parsed_emails |-> parsed_emails]

\* StudentTask.__lt__, lines 141-142: the higher priority is the lesser task.
lt(a, b) == a.priority > b.priority

\* heapq of the standard library, as lines 169 and 173 call it.  Positions
\* count from 0 as in the library; heap[pos + 1] is the item at pos.
RECURSIVE siftdown(_, _, _, _)
siftdown(heap, startpos, pos, newitem) ==
    IF pos > startpos
    THEN LET parentpos == (pos - 1) \div 2
             parent == heap[parentpos + 1]
         IN  IF lt(newitem, parent)
             THEN siftdown([heap EXCEPT ![pos + 1] = parent], startpos,
                           parentpos, newitem)
             ELSE [heap EXCEPT ![pos + 1] = newitem]
    ELSE [heap EXCEPT ![pos + 1] = newitem]

heappush(heap, item) ==
    LET h == Append(heap, item)
    IN  siftdown(h, 0, Len(h) - 1, item)

RECURSIVE siftup(_, _, _, _)
siftup(heap, pos, childpos, newitem) ==
    IF childpos < Len(heap)
    THEN LET rightpos == childpos + 1
             c == IF rightpos < Len(heap)
                     /\ ~lt(heap[childpos + 1], heap[rightpos + 1])
                  THEN rightpos ELSE childpos
         IN  siftup([heap EXCEPT ![pos + 1] = heap[c + 1]], c, 2 * c + 1, newitem)
    ELSE siftdown([heap EXCEPT ![pos + 1] = newitem], 0, pos, newitem)

\* <<the item returned, the heap left>>
heappop(heap) ==
    LET lastelt == heap[Len(heap)]
        rest == SubSeq(heap, 1, Len(heap) - 1)
    IN  IF rest # <<>>
        THEN <<rest[1], siftup([rest EXCEPT ![1] = lastelt], 0, 1, lastelt)>>
        ELSE <<lastelt, <<>>>>

\* Mutant: the loop of lines 175-181 without the test of line 176.
interviews_unfiltered(parsed_emails) ==
    [n \in DOMAIN parsed_emails |->
        [company_name |-> parsed_emails[n].company_name,
         interview_datetime |-> parsed_emails[n].interview_datetime]]

\* Lines 175-181: the entries with both fields truthy, reduced to the two.
RECURSIVE interviews(_)
interviews(parsed_emails) ==
    IF parsed_emails = <<>> THEN <<>>
    ELSE LET email_dict == Head(parsed_emails)
             keep == email_dict.company_name # "None"
                     /\ email_dict.interview_datetime # "None"
         IN  (IF keep
              THEN <<[company_name |-> email_dict.company_name,
                      interview_datetime |-> email_dict.interview_datetime]>>
              ELSE <<>>) \o interviews(Tail(parsed_emails))

\* email_dict.get of line 176 raises AttributeError on what is no dict.
get_raises(parsed_emails) ==
    \E n \in DOMAIN parsed_emails : parsed_emails[n].type # "dict"

\* The loop of lines 172-183, from a heap and the output so far: the heap
\* and the output it ends with, and whether it ended by raising.
RECURSIVE drain(_, _)
drain(heap, out) ==
    IF heap = <<>> THEN [pq |-> heap, output |-> out, raised |-> FALSE]
    ELSE LET popped == heappop(heap)
             task == popped[1]
             found == interviews(task.parsed_emails)
         IN  IF get_raises(task.parsed_emails)
             THEN [pq |-> popped[2], output |-> out, raised |-> TRUE]
             ELSE drain(popped[2],
                        IF found # <<>>
                        THEN (task.student_id :> found) @@ out
                        ELSE out)

\* students[i:i+BATCH_SIZE], as positions of students counted from 1.
batch == {k \in DOMAIN students : batch_i <= k /\ k < batch_i + batch_size}

\* The positions of a task inside fetch_emails: the await it is at.
FetchStates == {"hello", "login", "select", "search", "fetch", "logout"}

\* Mailbox sessions open: fetch_emails started and not returned.
OpenSessions == {k \in DOMAIN students : tpc[k] \in FetchStates}

\* Lines 164-166: the coroutines of the next batch are handed to gather.
StartBatch ==
    /\ cpc = "loop"
    /\ batch_i <= Len(students)
    /\ tpc' = [k \in DOMAIN students |-> IF k \in batch THEN "waiting" ELSE tpc[k]]
    /\ results' = <<>>
    /\ cpc' = "gather"
    /\ UNCHANGED <<runArgs, semaphore, batch_i, pq, output>>
    /\ UNCHANGED <<fetchVars, mainVars, histVars, backendVars>>

\* Mutant: sem_task enters process_student without the gate.
AcquireUngated(k) ==
    /\ tpc[k] = "waiting"
    /\ tpc' = [tpc EXCEPT ![k] = "hello"]
    /\ email_cache' = IF students[k] \in DOMAIN email_cache THEN email_cache
                      ELSE (students[k] :> {}) @@ email_cache
    /\ known' = [known EXCEPT ![k] = IF students[k] \in DOMAIN email_cache
                                     THEN email_cache[students[k]] ELSE {}]
    /\ UNCHANGED <<runArgs, semaphore, cpc, batch_i, results, pq, output>>
    /\ UNCHANGED <<conn, email_ids, emails_content, mainVars, backendVars>>
    /\ UNCHANGED <<tasks, failed, calls, returned>>

\* Lines 160-161, 148 and 54-62: sem_task takes a permit and fetch_emails
\* starts, up to its first await; a task with no permit to take stays
\* waiting.
Acquire(k) ==
    /\ tpc[k] = "waiting"
    /\ semaphore > 0
    /\ semaphore' = semaphore - 1
    /\ tpc' = [tpc EXCEPT ![k] = "hello"]
    /\ email_cache' = IF students[k] \in DOMAIN email_cache THEN email_cache
                      ELSE (students[k] :> {}) @@ email_cache
    /\ known' = [known EXCEPT ![k] = IF students[k] \in DOMAIN email_cache
                                     THEN email_cache[students[k]] ELSE {}]
    /\ UNCHANGED <<runArgs, cpc, batch_i, results, pq, output>>
    /\ UNCHANGED <<conn, email_ids, emails_content, mainVars, backendVars>>
    /\ UNCHANGED <<tasks, failed, calls, returned>>

\* fetch_emails returns emails, process_student parses them and builds the
\* StudentTask (149-154), sem_task gives the permit back (161-162).  Nothing
\* is awaited in between.
Finish(k, emails) ==
    /\ \E parsed_emails \in ParsedLists(emails) :
          /\ results' = (k :> StudentTask(students[k], parsed_emails)) @@ results
          /\ tasks' = (k :> StudentTask(students[k], parsed_emails)) @@ tasks
    /\ calls' = [calls EXCEPT ![k] = Len(emails)]
    /\ returned' = [returned EXCEPT ![students[k]] =
                       @ \o [n \in DOMAIN emails |-> emails[n][1]]]
    /\ semaphore' = semaphore + 1
    /\ tpc' = [tpc EXCEPT ![k] = "done"]
    /\ UNCHANGED <<runArgs, cpc, batch_i, pq, output, mainVars, known, backendVars>>

\* The await of a connection step returns: lines 62, 63, 64.
Connect(k) ==
    /\ tpc[k] \in {"hello", "login", "select"}
    /\ tpc' = [tpc EXCEPT ![k] = CASE tpc[k] = "hello" -> "login"
                                   [] tpc[k] = "login" -> "select"
                                   [] tpc[k] = "select" -> "search"]
    /\ conn' = [conn EXCEPT ![k] = "open"]
    /\ UNCHANGED <<runArgs, semaphore, cpc, batch_i, results, pq, output>>
    /\ UNCHANGED <<email_cache, email_ids, emails_content, mainVars, histVars,
                   backendVars>>

\* Mutant: the loop of line 74 without the test of line 76.
skip_none(ids, seen) == ids

\* Lines 74-77: the loop passes the ids that are in the cache.
RECURSIVE skip(_, _)
skip(ids, seen) ==
    IF ids # <<>> /\ Head(ids) \in seen THEN skip(Tail(ids), seen) ELSE ids

\* Lines 65-77: the search returns; with no id the function goes to the
\* logout of line 68, with ids to the first fetch or, all ids passed, to the
\* logout of line 97.
Search(k) ==
    /\ tpc[k] = "search"
    /\ LET ids == skip(mailbox[k], email_cache[students[k]])
       IN  /\ email_ids' = [email_ids EXCEPT ![k] = ids]
           /\ tpc' = [tpc EXCEPT ![k] = IF ids = <<>> THEN "logout" ELSE "fetch"]
    /\ emails_content' = [emails_content EXCEPT ![k] = <<>>]
    /\ UNCHANGED <<runArgs, semaphore, cpc, batch_i, results, pq, output>>
    /\ UNCHANGED <<email_cache, conn, mainVars, histVars, backendVars>>

\* Mutant: the loop body without the cache update of line 95.
FetchNoCacheAdd(k) ==
    /\ tpc[k] = "fetch"
    /\ LET e_id_str == Head(email_ids[k])
           ids == skip(Tail(email_ids[k]), email_cache[students[k]])
       IN  /\ emails_content' = [emails_content EXCEPT ![k] =
                                    Append(@, <<e_id_str, Body(e_id_str)>>)]
           /\ email_ids' = [email_ids EXCEPT ![k] = ids]
           /\ tpc' = [tpc EXCEPT ![k] = IF ids = <<>> THEN "logout" ELSE "fetch"]
    /\ UNCHANGED <<runArgs, semaphore, cpc, batch_i, results, pq, output>>
    /\ UNCHANGED <<email_cache, conn, mainVars, histVars, backendVars>>

\* Lines 79-95, and 74-77 for the ids after it: the fetch returns, the
\* message goes to emails_content and its id to the cache.
Fetch(k) ==
    /\ tpc[k] = "fetch"
    /\ LET e_id_str == Head(email_ids[k])
           cache == email_cache[students[k]] \cup {e_id_str}
           ids == skip(Tail(email_ids[k]), cache)
       IN  /\ emails_content' = [emails_content EXCEPT ![k] =
                                    Append(@, <<e_id_str, Body(e_id_str)>>)]
           /\ email_cache' = [email_cache EXCEPT ![students[k]] = cache]
           /\ email_ids' = [email_ids EXCEPT ![k] = ids]
           /\ tpc' = [tpc EXCEPT ![k] = IF ids = <<>> THEN "logout" ELSE "fetch"]
    /\ UNCHANGED <<runArgs, semaphore, cpc, batch_i, results, pq, output>>
    /\ UNCHANGED <<conn, mainVars, histVars, backendVars>>

\* Lines 68-69 and 97-98: the logout returns and fetch_emails returns what
\* it collected.
Logout(k) ==
    /\ tpc[k] = "logout"
    /\ conn' = [conn EXCEPT ![k] = "closed"]
    /\ Finish(k, emails_content[k])
    /\ UNCHANGED <<email_cache, email_ids, emails_content, failed>>

\* Mutant: fetch_emails without the except of line 100; the exception goes
\* through process_student and sem_task to the gather of line 166.
RaiseAborts(k) ==
    /\ tpc[k] \in FetchStates
    /\ failed' = failed \cup {k}
    /\ tpc' = [tpc EXCEPT ![k] = "done"]
    /\ semaphore' = semaphore + 1
    /\ cpc' = "raised"
    /\ UNCHANGED <<runArgs, batch_i, results, pq, output, fetchVars, mainVars>>
    /\ UNCHANGED <<tasks, known, calls, returned, backendVars>>

\* Lines 100-102: an await of fetch_emails raises (the server refuses or
\* times out, the message does not decode); fetch_emails returns [].
Raise(k) ==
    /\ tpc[k] \in FetchStates
    /\ failed' = failed \cup {k}
    /\ Finish(k, <<>>)
    /\ UNCHANGED <<email_cache, conn, email_ids, emails_content>>

\* The results of a batch pushed in the order of its students (168-169).
RECURSIVE push_all(_, _, _)
push_all(heap, res, k) ==
    IF k \in DOMAIN res THEN push_all(heappush(heap, res[k]), res, k + 1)
    ELSE heap

\* Mutant: the loop goes on when the first task of the batch has returned.
GatherFirstDone ==
    /\ cpc = "gather"
    /\ \E k \in batch : tpc[k] = "done"
    /\ pq' = push_all(pq, results, batch_i)
    /\ batch_i' = batch_i + batch_size
    /\ cpc' = "loop"
    /\ UNCHANGED <<runArgs, semaphore, tpc, results, output>>
    /\ UNCHANGED <<fetchVars, mainVars, histVars, backendVars>>

\* Lines 166-169: gather returns when every task of the batch has, the
\* results go into the heap and the loop moves to the next batch.
GatherDone ==
    /\ cpc = "gather"
    /\ \A k \in batch : tpc[k] = "done"
    /\ pq' = push_all(pq, results, batch_i)
    /\ batch_i' = batch_i + batch_size
    /\ cpc' = "loop"
    /\ UNCHANGED <<runArgs, semaphore, tpc, results, output>>
    /\ UNCHANGED <<fetchVars, mainVars, histVars, backendVars>>

\* Lines 171-183, reached when the loop of line 164 is exhausted: the
\* function returns output, or the loop raises and output is lost.
Drain ==
    /\ cpc = "loop"
    /\ batch_i > Len(students)
    /\ LET end == drain(pq, <<>>)
       IN  /\ output' = end.output
           /\ pq' = end.pq
           /\ cpc' = IF end.raised THEN "raised" ELSE "done"
    /\ UNCHANGED <<runArgs, semaphore, batch_i, tpc, results>>
    /\ UNCHANGED <<fetchVars, mainVars, histVars, backendVars>>

\* ------------------------------------------------------------------- main
\* What client.post and raise_for_status of lines 192-193 come to: a
\* success status, or one of the exceptions of lines 196 and 198.
PostOutcomes == {"200", "RequestError", "HTTPStatusError"}

\* Lines 206-213: the students of the database (none also when the
\* database fails, line 52); with none main returns, else it calls
\* process_all_students.
MainStart ==
    /\ mpc = "start"
    /\ mpc' = IF students = <<>> THEN "end" ELSE "run"
    /\ cpc' = IF students = <<>> THEN cpc ELSE "loop"
    /\ UNCHANGED <<runArgs, semaphore, batch_i, tpc, results, pq, output>>
    /\ UNCHANGED <<posts, runs, sent, fetchVars, histVars, backendVars>>

\* Lines 213-218: process_all_students has returned final_dict, which is
\* sent if it is not empty (the request of line 192 goes out), or it has
\* raised and so does main.
MainAfterRun ==
    /\ mpc = "run"
    /\ cpc \in {"done", "raised"}
    /\ mpc' = CASE cpc = "raised" -> "raised"
                [] cpc = "done" /\ DOMAIN output # {} -> "post"
                [] OTHER -> "end"
    /\ posts' = IF cpc = "done" /\ DOMAIN output # {} THEN posts + 1 ELSE posts
    /\ UNCHANGED <<runArgs, semaphore, cpc, batch_i, tpc, results, pq, output>>
    /\ UNCHANGED <<runs, sent, fetchVars, histVars, backendVars>>

\* Mutant: send_to_backend without the except clauses of lines 196-199.
SendRaises ==
    /\ mpc = "post"
    /\ sent' \in PostOutcomes
    /\ mpc' = IF sent' = "200" THEN "end" ELSE "raised"
    /\ UNCHANGED <<runArgs, semaphore, cpc, batch_i, tpc, results, pq, output>>
    /\ UNCHANGED <<posts, runs, fetchVars, histVars, backendVars>>

\* send_to_backend, lines 192-200: the request completes or fails; both
\* exceptions are caught and main ends.
SendToBackend ==
    /\ mpc = "post"
    /\ sent' \in PostOutcomes
    /\ mpc' = "end"
    /\ UNCHANGED <<runArgs, semaphore, cpc, batch_i, tpc, results, pq, output>>
    /\ UNCHANGED <<posts, runs, fetchVars, histVars, backendVars>>

\* main is called again in the process: the cache of line 31 is what the
\* earlier calls left, the mailboxes are what they are by then.
MainAgain ==
    /\ mpc = "end"
    /\ runs < MaxRuns
    /\ runs' = runs + 1
    /\ mpc' = "start"
    /\ mailbox' \in [DOMAIN students -> SearchResults]
    /\ semaphore' = ceiling
    /\ cpc' = "idle"
    /\ batch_i' = 1
    /\ tpc' = [k \in DOMAIN students |-> "new"]
    /\ conn' = [k \in DOMAIN students |-> "none"]
    /\ email_ids' = [k \in DOMAIN students |-> <<>>]
    /\ emails_content' = [k \in DOMAIN students |-> <<>>]
    /\ results' = <<>>
    /\ pq' = <<>>
    /\ output' = <<>>
    /\ posts' = 0
    /\ sent' = "none"
    /\ tasks' = <<>>
    /\ failed' = {}
    /\ known' = [k \in DOMAIN students |-> {}]
    /\ calls' = [k \in DOMAIN students |-> 0]
    /\ UNCHANGED <<students, batch_size, ceiling, email_cache, returned, backendVars>>

\* --------------------------------------------------------- specifications
InitRequests ==
    /\ committed = NoRows
    /\ delivered = 0
    /\ pc = [s \in Sessions |-> "idle"]
    /\ data = [s \in Sessions |-> <<>>]
    /\ idx = [s \in Sessions |-> 1]
    /\ todo = [s \in Sessions |-> <<>>]
    /\ staged = [s \in Sessions |-> NoRows]
    /\ response = [s \in Sessions |-> "none"]
    /\ before = [s \in Sessions |-> NoRows]
    /\ prior = [s \in Sessions |-> "none"]

\* The client as the module leaves it when nothing calls process_all_students.
\* A run of process_all_students on n students not begun.
RunNotBegun(n) ==
    /\ students = [k \in 1..n |-> k]
    /\ batch_i = 1
    /\ tpc = [k \in 1..n |-> "new"]
    /\ results = <<>>
    /\ pq = <<>>
    /\ output = <<>>
    /\ email_cache = <<>>
    /\ conn = [k \in 1..n |-> "none"]
    /\ email_ids = [k \in 1..n |-> <<>>]
    /\ emails_content = [k \in 1..n |-> <<>>]
    /\ posts = 0
    /\ runs = 1
    /\ sent = "none"
    /\ tasks = <<>>
    /\ failed = {}
    /\ known = [k \in 1..n |-> {}]
    /\ calls = [k \in 1..n |-> 0]
    /\ returned = [k \in 1..n |-> <<>>]

\* The client as the module leaves it when nothing calls it.
NoClientRun ==
    /\ RunNotBegun(0)
    /\ batch_size = BATCH_SIZE
    /\ ceiling = SEMAPHORE_PERMITS
    /\ semaphore = ceiling
    /\ mailbox = <<>>
    /\ cpc = "idle"
    /\ mpc = "off"

\* The reference data of section 8's example: A (S1) occupies (Mon,10:00)
\* through X, B (S2) occupies (Tue,10:00) through Y, both attend Z.
ExampleStore ==
    /\ subjects = {"X", "Y", "Z"}
    /\ weekly_slot = {<<"Mon", "10:00">>, <<"Mon", "11:00">>, <<"Tue", "10:00">>}
    /\ subject_schedule = {<<"X", "Mon", "10:00">>, <<"Y", "Tue", "10:00">>}
    /\ student_subject = {<<"S1", "X">>, <<"S2", "Y">>, <<"S1", "Z">>, <<"S2", "Z">>}
    /\ scan = "asc"

\* Two subjects that both have students and a common free slot.
PairStore ==
    /\ subjects = {"X", "Y"}
    /\ weekly_slot = {<<"Mon", "10:00">>, <<"Mon", "11:00">>, <<"Tue", "10:00">>}
    /\ subject_schedule = {<<"X", "Mon", "10:00">>, <<"Y", "Tue", "10:00">>}
    /\ student_subject = {<<"S1", "X">>, <<"S2", "X">>, <<"S2", "Y">>}
    /\ scan = "asc"

\* Every content of the reference tables over two subjects and GridSlots.
GridSlots == {<<"Fri", "10:00">>, <<"Mon", "10:00">>, <<"Mon", "9:00">>}

GridStore ==
    /\ subjects = {"X", "Y"}
    /\ weekly_slot \in SUBSET GridSlots
    /\ subject_schedule \in SUBSET {<<c, p[1], p[2]>> : c \in {"X", "Y"}, p \in GridSlots}
    /\ student_subject \in SUBSET (Students \X {"X", "Y"})
    /\ scan \in {"asc", "desc"}

\* The mappings SpecSched delivers.
ProbeMappings ==
    {<<[student_id |-> "S1", company_name |-> "Acme",
        interview_datetime |-> "2024-01-01T10:00:00"]>>}

\* Spec: deliveries of every mapping arrive one at a time.
Init ==
    /\ PairStore
    /\ InitRequests
    /\ NoClientRun

Next ==
    \E s \in Sessions :
        \/ \E m \in Mappings :
              NoneInFlight /\ delivered < MaxDeliveries /\ Begin(s, m)
        \/ UpsertEntry(s)
        \/ LoadSubjects(s)
        \/ RescheduleSubject(s)
        \/ Commit(s)
        \/ StoreError(s)

Spec == Init /\ [][Next]_vars

\* SpecSched: deliveries over every content of the reference tables.
InitSched ==
    /\ GridStore \/ ExampleStore
    /\ InitRequests
    /\ NoClientRun

NextSched ==
    \E s \in Sessions :
        \/ \E m \in ProbeMappings :
              NoneInFlight /\ delivered < MaxSchedDeliveries /\ Begin(s, m)
        \/ UpsertEntry(s)
        \/ LoadSubjects(s)
        \/ RescheduleSubject(s)
        \/ Commit(s)
        \/ StoreError(s)

SpecSched == InitSched /\ [][NextSched]_vars

\* SpecOverlap: a delivery may arrive while another is in flight.
NextOverlap ==
    \E s \in Sessions :
        \/ \E m \in Mappings : delivered < MaxDeliveries /\ Begin(s, m)
        \/ UpsertEntry(s)
        \/ LoadSubjects(s)
        \/ RescheduleSubject(s)
        \/ Commit(s)
        \/ StoreError(s)

SpecOverlap == Init /\ [][NextOverlap]_vars

\* SpecClient: one run of process_all_students, for every population up to
\* MaxPopulation, and every batch size and gate ceiling up to MaxBatch and
\* MaxCeiling, and the two the code has.
InitClient ==
    /\ PairStore
    /\ InitRequests
    /\ \E n \in 0..MaxPopulation :
          /\ RunNotBegun(n)
          /\ mailbox \in [1..n -> {<<>>, <<"1">>}]
    /\ batch_size \in (1..MaxBatch) \cup {BATCH_SIZE}
    /\ ceiling \in (1..MaxCeiling) \cup {SEMAPHORE_PERMITS}
    /\ semaphore = ceiling
    /\ cpc = "loop"
    /\ mpc = "off"

NextClient ==
    \/ StartBatch
    \/ \E k \in DOMAIN students : Acquire(k)
    \/ \E k \in DOMAIN students : Connect(k)
    \/ \E k \in DOMAIN students : Search(k)
    \/ \E k \in DOMAIN students : Fetch(k)
    \/ \E k \in DOMAIN students : Logout(k)
    \/ \E k \in DOMAIN students : Raise(k)
    \/ GatherDone
    \/ Drain

SpecClient == InitClient /\ [][NextClient]_vars

\* SpecRun: main, called up to MaxRuns times in one process with the batch
\* size and the ceiling of the code, over every content of the mailboxes
\* of up to two students.
InitRun ==
    /\ PairStore
    /\ InitRequests
    /\ \E n \in 0..2 :
          /\ RunNotBegun(n)
          /\ mailbox \in [1..n -> SearchResults]
    /\ batch_size = BATCH_SIZE
    /\ ceiling = SEMAPHORE_PERMITS
    /\ semaphore = ceiling
    /\ cpc = "idle"
    /\ mpc = "start"

NextRun ==
    \/ MainStart
    \/ NextClient
    \/ MainAfterRun
    \/ SendToBackend
    \/ MainAgain

SpecRun == InitRun /\ [][NextRun]_vars

\* ------------------------------------------------------------------ claims
\* C1: during a run of process_all_students, whatever the population, the
\* batch size and the gate ceiling, the mailbox sessions open at one time
\* (fetch_emails started and not returned) never outnumber the gate ceiling.
C1_OpenSessionsWithinCeiling ==
    /\ Cardinality(OpenSessions) <= ceiling
    /\ semaphore = ceiling - Cardinality(OpenSessions)

\* The gate binds: every permit is taken and a task of the batch waits.
C1_Witness ==
    /\ Cardinality(OpenSessions) = ceiling
    /\ \E k \in batch : tpc[k] = "waiting"

\* An extracted record with both fields present.
Qualifies(r) == r.company_name # "None" /\ r.interview_datetime # "None"

\* The qualifying records of a list, with the two fields only, in order.
Qualifying(parsed_emails) ==
    LET q == SelectSeq(parsed_emails, Qualifies)
    IN  [n \in DOMAIN q |-> [company_name |-> q[n].company_name,
                             interview_datetime |-> q[n].interview_datetime]]

\* C11: the mapping process_all_students returns has a key for a student
\* exactly when one of the student's extracted records has both fields
\* present, and the value is those records, the two fields only, in the
\* order of extraction; there is no other key.
C11_OutputIsQualifying ==
    cpc = "done" =>
        /\ DOMAIN output \subseteq {students[k] : k \in DOMAIN students}
        /\ \A k \in DOMAIN students :
              LET q == Qualifying(tasks[k].parsed_emails)
              IN  /\ students[k] \in DOMAIN output <=> q # <<>>
                  /\ students[k] \in DOMAIN output => output[students[k]] = q

\* A mapping was returned that has one of the two records of a student and
\* not the other, and leaves out a student whose only records do not qualify.
C11_Witness ==
    /\ cpc = "done"
    /\ \E k \in DOMAIN students :
          /\ Len(tasks[k].parsed_emails) = 2
          /\ students[k] \in DOMAIN output
          /\ Len(output[students[k]]) = 1
    /\ \E k \in DOMAIN students :
          /\ tasks[k].parsed_emails # <<>>
          /\ students[k] \notin DOMAIN output

\* C12: a student's mailbox failure makes fetch_emails return [] and does
\* not abort the run: the step of the failure leaves process_all_students
\* and the other tasks where they are, the student's task record is empty,
\* and a mapping that is returned has the qualifying interviews of every
\* student whose mailbox did not fail.  A run ends by raising only when
\* an extracted record is no object.
C12_MailboxFailureIsLocal ==
    /\ [](/\ \A k \in failed :
                /\ k \in DOMAIN tasks
                /\ tasks[k].parsed_emails = <<>>
                /\ tpc[k] = "done"
          /\ cpc = "raised" =>
                \E k \in DOMAIN tasks : get_raises(tasks[k].parsed_emails)
          /\ cpc = "done" =>
                \A k \in DOMAIN students \ failed :
                    /\ Len(tasks[k].parsed_emails) = Len(mailbox[k])
                    /\ Qualifying(tasks[k].parsed_emails) # <<>> =>
                          /\ students[k] \in DOMAIN output
                          /\ output[students[k]] = Qualifying(tasks[k].parsed_emails))
    /\ [][\A k \in failed' \ failed :
              /\ cpc' = cpc
              /\ \A j \in DOMAIN students \ {k} : tpc'[j] = tpc[j]]_vars

\* A mapping was returned in a run where the mailbox of a student with an
\* unseen message failed, and it has the interviews of another student.
C12_Witness ==
    /\ cpc = "done"
    /\ \E k \in failed : mailbox[k] # <<>>
    /\ \E j \in DOMAIN students \ failed : students[j] \in DOMAIN output

\* A reply as the extraction service is asked to give it: an object with
\* the two fields as strings.
AsAsked(r) ==
    r.type = "dict" /\ r.company_name # "None" /\ r.interview_datetime # "None"

\* C13: whatever the extraction service replies, no exception ends the run,
\* and the records of replies other than an object with the two string
\* fields are not in the mapping returned.
C13_ExtractionFailureIsSoft ==
    /\ cpc # "raised"
    /\ cpc = "done" =>
          \A k \in DOMAIN students :
              LET asked == SelectSeq(tasks[k].parsed_emails, AsAsked)
              IN  IF asked = <<>> THEN students[k] \notin DOMAIN output
                  ELSE /\ students[k] \in DOMAIN output
                       /\ Len(output[students[k]]) = Len(asked)

\* The ids the search reported for student k.
Reported(k) == {mailbox[k][n] : n \in DOMAIN mailbox[k]}

\* C14: when every id the mailbox reports as unseen is in the student's
\* cache already, fetch_emails fetches no message, the student's task
\* record is empty and no extraction call is made for the student.
C14_AllSeenNoExtraction ==
    \A k \in DOMAIN students :
        (tpc[k] \in {"logout", "done"} /\ Reported(k) \subseteq known[k]) =>
            /\ emails_content[k] = <<>>
            /\ calls[k] = 0
            /\ tpc[k] = "done" =>
                  /\ tasks[k].parsed_emails = <<>>
                  /\ tasks[k].priority = 0

\* A fetch_emails that found two ids, both in the cache, has logged out
\* and returned.
C14_Witness ==
    \E k \in DOMAIN students :
        /\ tpc[k] = "done"
        /\ k \notin failed
        /\ Len(mailbox[k]) = 2
        /\ Reported(k) \subseteq known[k]

\* C15: over the fetch_emails invocations for a student in one process, no
\* message id is returned twice, and an id that was returned is in the
\* student's cache.
C15_NoIdReturnedTwice ==
    \A sid \in DOMAIN returned :
        /\ \A m, n \in DOMAIN returned[sid] :
              returned[sid][m] = returned[sid][n] => m = n
        /\ \A n \in DOMAIN returned[sid] :
              /\ sid \in DOMAIN email_cache
              /\ returned[sid][n] \in email_cache[sid]

\* A second invocation was given ids "1" and "2", "1" returned by the first
\* invocation, and has returned "2" only.
C15_Witness ==
    \E k \in DOMAIN students :
        /\ runs = 2
        /\ tpc[k] = "done"
        /\ mailbox[k] = <<"1", "2">>
        /\ known[k] = {"1"}
        /\ returned[students[k]] = <<"1", "2">>

\* C16: a fetch_emails that opened a mailbox connection has logged out
\* when it returns, whatever the outcome.
C16_LogoutOnEveryOutcome ==
    \A k \in DOMAIN students : tpc[k] = "done" => conn[k] # "open"

\* The batch of the student at position k, counted from 0.
BatchOf(k) == (k - 1) \div batch_size

\* C17: no task of a batch has taken the gate or opened a mailbox session
\* while a task of an earlier batch has not completed.
C17_BatchesInSequence ==
    \A j, k \in DOMAIN students :
        (BatchOf(j) < BatchOf(k) /\ tpc[k] \in FetchStates \cup {"done"}) =>
            tpc[j] = "done"

\* A task of the second batch is in its mailbox session, after a first
\* batch of two tasks.
C17_Witness ==
    \E j, k \in DOMAIN students :
        /\ j # k
        /\ BatchOf(j) = 0
        /\ BatchOf(k) = 0
        /\ \E n \in DOMAIN students : BatchOf(n) = 1 /\ tpc[n] \in FetchStates

\* C18: a run of main issues at most one request to the backend: one when
\* process_all_students returned a mapping that is not empty, none when
\* the mapping is empty or there are no students; a request that fails
\* (transport error or error status) ends the run, without another request
\* and without an exception.
C18_OneBackendCall ==
    /\ posts <= 1
    /\ posts = 1 => (students # <<>> /\ cpc = "done" /\ DOMAIN output # {})
    /\ mpc = "end" =>
          /\ posts = 1 <=> (students # <<>> /\ DOMAIN output # {})
          /\ posts = 1 => sent \in PostOutcomes
    /\ sent # "none" => (mpc = "end" /\ posts = 1)

\* A run whose request got an error status has ended.
C18_Witness ==
    /\ mpc = "end"
    /\ posts = 1
    /\ sent = "HTTPStatusError"

\* C19: the priority of a student's task record is the number of the
\* student's extracted records with both fields non-null; the records of
\* failed extractions do not count.
C19_PriorityCountsQualifying ==
    \A k \in DOMAIN tasks :
        tasks[k].priority = Len(SelectSeq(tasks[k].parsed_emails, AsAsked))

\* The students whose task record is in the heap.
Queued == {pq[n].student_id : n \in DOMAIN pq}

\* C20: a run of process_all_students comes to an end with the queue
\* drained to empty, after one task record per student was pushed and with
\* every permit returned; between batches every permit is free and the
\* queue holds one record per student of the batches done.
C20_RunEndsDrained ==
    /\ cpc = "loop" =>
          /\ semaphore = ceiling
          /\ Queued = {students[k] : k \in {j \in DOMAIN students : j < batch_i}}
          /\ Len(pq) = Cardinality(Queued)
    /\ cpc \in {"done", "raised"} =>
          /\ semaphore = ceiling
          /\ DOMAIN tasks = DOMAIN students
          /\ pq = <<>>

Parseable(e) == fromisoformat(e.interview_datetime) # ValueError

\* The rows of a drives table for the (student, company, parsed datetime)
\* triple of entry e.
RowsFor(rows, e) ==
    {d \in rows :
        /\ d.student_id = e.student_id
        /\ d.company_name = e.company_name
        /\ d.drive_datetime = fromisoformat(e.interview_datetime)}

\* The slots of WeeklySlot that no subject schedule of a student enrolled in
\* subject c books.
CommonFree(c) ==
    {p \in weekly_slot :
        \A e \in student_subject : e[2] = c =>
            \A b \in subject_schedule :
                <<e[1], b[1]>> \in student_subject => <<b[2], b[3]>> # p}

Enrollment(c) == {e \in student_subject : e[2] = c}

\* The subjects a delivery reschedules.
Reschedulable == {c \in subjects : Enrollment(c) # {} /\ CommonFree(c) # {}}

\* C2: when a mapping is delivered again right after a delivery of the same
\* mapping succeeded, the second delivery stages and inserts no
\* StudentCompanyDrive row, and every (student, company, parsed datetime)
\* triple of the mapping has exactly one row.
C2_IdempotentRedelivery ==
    \A s \in Sessions : prior[s] = "success" =>
        /\ staged[s].drives = {}
        /\ committed.drives = before[s].drives
        /\ \A i \in 1..Len(data[s]) : Parseable(data[s][i]) =>
               Cardinality(RowsFor(committed.drives, data[s][i])) = 1

C2_Witness ==
    \E s \in Sessions :
        /\ prior[s] = "success"
        /\ response[s] = "success"
        /\ \E i \in 1..Len(data[s]) : Parseable(data[s][i])

\* C3: the committed store holds at most one StudentCompanyDrive row per
\* (student, company, datetime) triple.
C3_UniqueDrives ==
    \A d1, d2 \in committed.drives :
        (/\ d1.student_id = d2.student_id
         /\ d1.company_name = d2.company_name
         /\ d1.drive_datetime = d2.drive_datetime) => d1 = d2

\* What a committed delivery of session s has written: a row for every
\* parseable entry that had none, and for every reschedulable subject one
\* RescheduledClass with a RescheduledClassStudent and an Attendance row per
\* enrolled student.
AllWritten(s) ==
    LET new == [drives |-> committed.drives \ before[s].drives,
                resched |-> committed.resched \ before[s].resched,
                rcs |-> committed.rcs \ before[s].rcs,
                attendance |-> committed.attendance \ before[s].attendance]
        absent == {i \in 1..Len(data[s]) :
                      /\ Parseable(data[s][i])
                      /\ RowsFor(before[s].drives, data[s][i]) = {}}
    IN  /\ before[s].drives \subseteq committed.drives
        /\ before[s].resched \subseteq committed.resched
        /\ before[s].rcs \subseteq committed.rcs
        /\ before[s].attendance \subseteq committed.attendance
        /\ \A i \in absent : Cardinality(RowsFor(new.drives, data[s][i])) = 1
        /\ \A d \in new.drives : \E i \in absent : d \in RowsFor(new.drives, data[s][i])
        /\ \A c \in Reschedulable :
              /\ Cardinality({x \in new.resched : x.subject_id = c}) = 1
              /\ \A x \in new.resched : x.subject_id = c =>
                    \A e \in Enrollment(c) :
                        /\ \E y \in new.rcs :
                              y.reschedule_id = x.reschedule_id /\ y.student_id = e[1]
        /\ \A x \in new.resched : x.subject_id \in Reschedulable
        /\ Cardinality(new.rcs) =
               Cardinality({e \in student_subject : e[2] \in Reschedulable})
        /\ Cardinality(new.attendance) = Cardinality(new.rcs)

\* C4: a delivery is atomic.  While it runs the committed store is what it
\* was when the delivery began; when it ends the caller got "success" and
\* every write of the delivery is committed, or the caller got one 500 and
\* the committed store is what it was when the delivery began.
C4_AtomicDelivery ==
    \A s \in Sessions :
        /\ InFlight(s) => committed = before[s] /\ response[s] = "none"
        /\ pc[s] = "done" => response[s] \in {"success", "500"}
        /\ response[s] = "500" =>
               pc[s] = "done" /\ committed = before[s] /\ staged[s] = NoRows
        /\ response[s] = "success" =>
               pc[s] = "done" /\ staged[s] = NoRows /\ AllWritten(s)

\* A delivery failed after it had staged rows of its entries and of the
\* first subject.
C4_Witness ==
    \E s \in Sessions :
        /\ response[s] = "500"
        /\ Len(todo[s]) = 1
        /\ \E c \in Reschedulable : c # Head(todo[s])
        /\ \E i \in 1..Len(data[s]) :
              Parseable(data[s][i]) /\ RowsFor(committed.drives, data[s][i]) = {}

\* C5: an entry whose interview_datetime does not parse gets no row and does
\* not abort the delivery: the turn of the loop that meets it only moves to
\* the next entry, and a delivery that commits has a row for every entry
\* whose timestamp parses.
C5_BadEntrySkipped ==
    /\ [](\A s \in Sessions :
            /\ \A d \in committed.drives \cup staged[s].drives :
                  d.drive_datetime # ValueError
            /\ response[s] = "success" =>
                  \A i \in 1..Len(data[s]) : Parseable(data[s][i]) =>
                      RowsFor(committed.drives, data[s][i]) # {})
    /\ [][\A s \in Sessions :
            (/\ pc[s] = "upsert"
             /\ idx[s] <= Len(data[s])
             /\ ~Parseable(data[s][idx[s]])
             /\ UpsertEntry(s))
            => (/\ pc'[s] = "upsert"
                /\ idx'[s] = idx[s] + 1
                /\ staged' = staged
                /\ committed' = committed
                /\ response' = response)]_vars

\* A delivery with an unparseable entry committed a row for a sibling entry.
C5_Witness ==
    \E s \in Sessions :
        /\ response[s] = "success"
        /\ \E i, j \in 1..Len(data[s]) :
              /\ ~Parseable(data[s][i])
              /\ Parseable(data[s][j])
              /\ RowsFor(committed.drives \ before[s].drives, data[s][j]) # {}

\* Lexicographic order on (day string, time string), by code points.
LexLess(p, q) ==
    \/ SeqLess(Chars(p[1]), Chars(q[1]))
    \/ p[1] = q[1] /\ SeqLess(Chars(p[2]), Chars(q[2]))

\* The RescheduledClass rows of the store and of the open transactions.
AllResched == AllRows(Sessions).resched

\* The turn of the loop of lines 232-233 that session s takes for the
\* subject at the head of todo.
RescheduleStep(s) ==
    /\ pc[s] = "subjects"
    /\ todo[s] # <<>>
    /\ todo'[s] = Tail(todo[s])

\* C6: the (day, time) of a RescheduledClass is a WeeklySlot that no subject
\* schedule of an enrolled student books, and the least such slot in
\* lexicographic order on (day string, time string); the rows of one subject
\* all have the same slot, and in the example of section 8 the slot of the
\* subject A and B share is (Mon, 11:00).
C6_LeastCommonFreeSlot ==
    /\ \A x \in AllResched :
          LET slot == <<x.day, x.time>>
              free == CommonFree(x.subject_id)
          IN  /\ slot \in free
              /\ \A q \in free \ {slot} : LexLess(slot, q)
    /\ \A x, y \in AllResched :
          x.subject_id = y.subject_id => x.day = y.day /\ x.time = y.time
    /\ ExampleStore =>
          \A x \in AllResched :
              x.subject_id = "Z" => x.day = "Mon" /\ x.time = "11:00"

\* The example of section 8 was committed.
C6_Witness ==
    /\ ExampleStore
    /\ occupied("S1") = {<<"Mon", "10:00">>}
    /\ occupied("S2") = {<<"Tue", "10:00">>}
    /\ \E x \in committed.resched :
          x.subject_id = "Z" /\ x.day = "Mon" /\ x.time = "11:00"

\* C7: the turn of the loop for a subject with no enrolled student stages
\* and commits nothing, and no RescheduledClass belongs to such a subject.
C7_NoStudentsNoWrites ==
    /\ [](\A x \in AllResched : Enrollment(x.subject_id) # {})
    /\ [][\A s \in Sessions :
            (RescheduleStep(s) /\ Enrollment(Head(todo[s])) = {})
                => staged' = staged /\ committed' = committed]_vars

\* A delivery committed in a store where a subject has no student and
\* another subject was rescheduled.
C7_Witness ==
    \E s \in Sessions :
        /\ response[s] = "success"
        /\ weekly_slot # {}
        /\ \E c \in subjects : Enrollment(c) = {}
        /\ committed.resched # {}

\* C8: the turn of the loop for a subject whose students have no common free
\* slot stages and commits nothing and leaves the delivery running, and no
\* RescheduledClass belongs to such a subject.
C8_NoCommonSlotNoClass ==
    /\ [](\A x \in AllResched : CommonFree(x.subject_id) # {})
    /\ [][\A s \in Sessions :
            (RescheduleStep(s) /\ CommonFree(Head(todo[s])) = {})
                => /\ staged' = staged
                   /\ committed' = committed
                   /\ pc'[s] = "subjects"
                   /\ response'[s] = "none"]_vars

\* A delivery committed in a store where the students of a subject have no
\* common free slot although one of them has a free slot.
C8_Witness ==
    \E s \in Sessions :
        /\ response[s] = "success"
        /\ \E c \in subjects :
              /\ Enrollment(c) # {}
              /\ CommonFree(c) = {}
              /\ \E e \in Enrollment(c) : weekly_slot \ occupied(e[1]) # {}
              /\ \A x \in committed.resched : x.subject_id # c

\* C9: a turn of the loop that reschedules subject c stages exactly one
\* RescheduledClass (pending) and, for each student enrolled in c and for no
\* other, exactly one RescheduledClassStudent (pending) and exactly one
\* Attendance row (schedule NULL, absent); no row has status done.
C9_OneClassPerDecision ==
    /\ [](\A x \in AllRows(Sessions).resched \cup AllRows(Sessions).rcs
                    \cup AllRows(Sessions).drives : x.status = "pending")
    /\ [][\A s \in Sessions : RescheduleStep(s) =>
            LET c == Head(todo[s])
                resched == staged'[s].resched \ staged[s].resched
                rcs == staged'[s].rcs \ staged[s].rcs
                attendance == staged'[s].attendance \ staged[s].attendance
            IN  /\ staged'[s].drives = staged[s].drives
                /\ \/ resched = {} /\ rcs = {} /\ attendance = {}
                   \/ /\ Cardinality(resched) = 1
                      /\ \A x \in resched :
                            /\ x.subject_id = c
                            /\ x.status = "pending"
                            /\ rcs = {[reschedule_id |-> x.reschedule_id,
                                       student_id |-> e[1],
                                       status |-> "pending"] : e \in Enrollment(c)}
                      /\ \A e \in Enrollment(c) :
                            Cardinality({a \in attendance : a.student_id = e[1]}) = 1
                      /\ \A a \in attendance :
                            /\ a.schedule_id = "NULL"
                            /\ a.status = "absent"
                            /\ <<a.student_id, c>> \in student_subject]_vars

\* A class with two students and a class with one student were committed.
C9_Witness ==
    \E x, y \in committed.resched :
        /\ Cardinality(Enrollment(x.subject_id)) = 2
        /\ Cardinality(Enrollment(y.subject_id)) = 1
        /\ Cardinality({z \in committed.rcs : z.reschedule_id = x.reschedule_id}) = 2

\* C10: every RescheduledClassStudent row references a RescheduledClass row
\* of the same transaction: of the same open transaction while staged, and
\* committed by the same commit.
C10_ClassOfSameTransaction ==
    /\ [](/\ \A y \in committed.rcs :
               \E x \in committed.resched : x.reschedule_id = y.reschedule_id
          /\ \A s \in Sessions : \A y \in staged[s].rcs :
               \E x \in staged[s].resched : x.reschedule_id = y.reschedule_id)
    /\ [][\A y \in committed'.rcs \ committed.rcs :
            \E x \in committed'.resched \ committed.resched :
                x.reschedule_id = y.reschedule_id]_vars

\* RescheduledClassStudent rows of two transactions are committed.
C10_Witness ==
    \E x, y \in committed.rcs : x.reschedule_id # y.reschedule_id

\* C21: a delivery only inserts rows into StudentCompanyDrive,
\* RescheduledClass, RescheduledClassStudent and Attendance: every step keeps
\* each committed row as it is, a transaction in flight keeps each row it
\* staged, and Subject, WeeklySlot, SubjectSchedule and the enrollment stay
\* unchanged.
C21_DeliveryOnlyInserts ==
    [][/\ committed.drives \subseteq committed'.drives
       /\ committed.resched \subseteq committed'.resched
       /\ committed.rcs \subseteq committed'.rcs
       /\ committed.attendance \subseteq committed'.attendance
       /\ \A s \in Sessions : (InFlight(s) /\ InFlight(s)') =>
              /\ staged[s].drives \subseteq staged'[s].drives
              /\ staged[s].resched \subseteq staged'[s].resched
              /\ staged[s].rcs \subseteq staged'[s].rcs
              /\ staged[s].attendance \subseteq staged'[s].attendance
       /\ UNCHANGED <<subjects, weekly_slot, subject_schedule,
                      student_subject>>]_vars

\* A delivery committed rows of the four tables next to the rows an earlier
\* delivery had committed.
C21_Witness ==
    \E s \in Sessions :
        /\ response[s] = "success"
        /\ pc[s] = "done"
        /\ before[s].drives # {} /\ before[s].resched # {}
        /\ before[s].rcs # {} /\ before[s].attendance # {}
        /\ before[s].drives \subseteq committed.drives
        /\ committed.drives # before[s].drives
        /\ committed.resched # before[s].resched
        /\ committed.rcs # before[s].rcs
        /\ committed.attendance # before[s].attendance

\* The committed RescheduledClass rows of subject c.
ClassesOf(c) == {x \in committed.resched : x.subject_id = c}

\* The step in which the delivery of session s succeeds.
Succeeds(s) ==
    /\ InFlight(s)
    /\ pc'[s] = "done"
    /\ response'[s] = "success"

\* C22: RescheduledClass rows are created per delivery, whatever the mapping:
\* the step in which a delivery succeeds adds exactly one row for every
\* subject with an enrolled student and a common free slot, and no other step
\* adds or removes one, so that after n successful deliveries each such
\* subject has n rows; the rows of a subject all have the same (day, time).
C22_OneClassPerDelivery ==
    /\ [](/\ \A c, d \in Reschedulable :
                Cardinality(ClassesOf(c)) = Cardinality(ClassesOf(d))
          /\ \A x, y \in committed.resched :
                x.subject_id = y.subject_id =>
                    x.day = y.day /\ x.time = y.time)
    /\ [][IF \E s \in Sessions : Succeeds(s)
          THEN \A c \in Reschedulable :
                  Cardinality(ClassesOf(c)') = Cardinality(ClassesOf(c)) + 1
          ELSE committed'.resched = committed.resched]_vars

\* Two deliveries succeeded, the second inserted no StudentCompanyDrive, and
\* every subject with students and a common free slot has two rows.
C22_Witness ==
    /\ Reschedulable # {}
    /\ \A c \in Reschedulable : Cardinality(ClassesOf(c)) = 2
    /\ \E s \in Sessions :
          /\ pc[s] = "done"
          /\ response[s] = "success"
          /\ before[s].resched # {}
          /\ committed.drives = before[s].drives

\* C23: whenever no fetch_emails invocation is running for a student, every
\* message id in the student's cache was returned to the caller by some
\* invocation for that student; an invocation that failed has left the cache
\* as it found it.
C23_CachedOnlyIfReturned ==
    \A k \in DOMAIN students :
        (tpc[k] \notin FetchStates /\ students[k] \in DOMAIN email_cache) =>
            /\ \A e_id \in email_cache[students[k]] :
                  \E n \in DOMAIN returned[students[k]] :
                      returned[students[k]][n] = e_id
            /\ (k \in failed /\ tpc[k] = "done") =>
                  email_cache[students[k]] = known[k]

\* The RescheduledClass rows the last delivery of session s committed.
CreatedBy(s) ==
    IF pc[s] = "done" /\ response[s] = "success"
    THEN committed.resched \ before[s].resched
    ELSE {}

\* The students attached to the RescheduledClass x.
Attached(x) ==
    {y.student_id : y \in {z \in committed.rcs :
                               z.reschedule_id = x.reschedule_id}}

\* C24: no student is attached to two RescheduledClass rows that one
\* delivery created with the same (day, time).
C24_NoStudentTwiceAtOneSlot ==
    \A s \in Sessions : \A x, y \in CreatedBy(s) :
        (x # y /\ x.day = y.day /\ x.time = y.time) =>
            Attached(x) \cap Attached(y) = {}

====
